---- MODULE Spec2Model ----
(***************************************************************************)
(* A model of the slave side of the cluster resource manager               *)
(* (src/src/slave.hpp), of the leader listener it embeds, of the master    *)
(* state machine it talks to, of the main of the master binary             *)
(* (src/src/master_main.cpp), of the test environment                      *)
(* (src/src/tests/environment.cpp) and of the operators of UPID            *)
(* (src/third_party/libprocess/pid.hpp).                                   *)
(*                                                                         *)
(* The specifications share the variables:                                 *)
(*   SpecFramework  the struct Framework under arbitrary call sequences    *)
(*   Spec           master and slave exchanging messages                   *)
(*   SpecStale      Spec, and a RUN_TASK for a task the slave holds        *)
(*   SpecSlave      the slave's handlers under any message order           *)
(*   SpecQueue      the slave's handlers for one framework, three tasks    *)
(*   SpecLate       Spec, and a status update for a task that is over      *)
(*   SpecOffers     the master's offers, every LAUNCH_TASKS noted          *)
(*   SpecLeader     the leader-listener thread beside the message loop     *)
(*   SpecMain       the main of the master binary, any command line        *)
(*   SpecEnable     enable() on any test in any surroundings               *)
(*   SpecFilter     the constructor of the test Environment                *)
(*   SpecPid        the operators of UPID on any three objects             *)
(***************************************************************************)
EXTENDS Integers, Sequences, FiniteSets, Bags, TLC

\* ------------------------------------------------------------------ bounds

\* TaskIDs are 1..MaxTaskId.
MaxTaskId == 2

\* The master mints OfferIDs 1..MaxOffers.
MaxOffers == 2

\* A RUN_TASK from outside the master's bookkeeping is taken while fewer than
\* MaxDelivered tasks are queued for, or were sent to, the live executors.
MaxDelivered == 2

\* A handler sends on a link that holds fewer than MaxQueue messages.
MaxQueue == 1

\* The listener posts while the slave's queue holds fewer than MaxInbox
\* LE2S_NEWLEADER messages.
MaxInbox == 2

FrameworkIDs == {"f1", "f2"}
TaskIDs == 1..MaxTaskId
TaskNames == {"job"}

\* ------------------------------------------------------------- resources

\* Resources: named scalar quantities (resources.hpp is not part of the
\* sources; the two kinds and the componentwise operations follow the
\* specification's data model).
Resources(c, m) == [cpus |-> c, mem |-> m]

ResZero == Resources(0, 0)

ResAdd(a, b) == Resources(a.cpus + b.cpus, a.mem + b.mem)

ResSub(a, b) == Resources(a.cpus - b.cpus, a.mem - b.mem)

ResLeq(a, b) == a.cpus <= b.cpus /\ a.mem <= b.mem

\* The resources a task may ask for.
TaskResources == {Resources(1, 2), Resources(2, 1)}

\* The resources the slave advertises.
SlaveTotal == Resources(2, 5)

RECURSIVE ResSum(_)
\* The sum of a sequence of resources.
ResSum(rs) == IF rs = <<>> THEN ResZero ELSE ResAdd(Head(rs), ResSum(Tail(rs)))

\* ------------------------------------------------------------ task states

TASK_STARTING == "TASK_STARTING"
TASK_RUNNING == "TASK_RUNNING"
TASK_FINISHED == "TASK_FINISHED"
TASK_FAILED == "TASK_FAILED"
TASK_KILLED == "TASK_KILLED"
TASK_LOST == "TASK_LOST"

TerminalStates == {TASK_FINISHED, TASK_FAILED, TASK_KILLED, TASK_LOST}

\* ------------------------------------------------------------------- heap

\* Objects made by `new` live in a heap.  An object has no state but its
\* fields, so the heap is the bag (multiset) of the live objects, and a
\* container of pointers holds the objects pointed to.
EmptyHeap == EmptyBag

\* new: one more live object.
New(heap, obj) == heap (+) SetToBag({obj})

\* delete: one live object fewer.
Delete(heap, obj) == heap (-) SetToBag({obj})

RECURSIVE DeleteAll(_, _)
\* delete of every object of a sequence of pointers.
DeleteAll(heap, objs) ==
  IF objs = <<>> THEN heap ELSE DeleteAll(Delete(heap, Head(objs)), Tail(objs))

\* map.erase / a map without key k.
MapErase(map, k) == [x \in DOMAIN map \ {k} |-> map[x]]

\* map[k] = v, inserting or overwriting.
MapPut(map, k, v) == [x \in DOMAIN map \cup {k} |-> IF x = k THEN v ELSE map[x]]

EmptyMap == [x \in {} |-> 0]

Range(s) == {s[i] : i \in DOMAIN s}

\* list.erase(it): the sequence without its i-th element.
SeqErase(s, i) == [j \in 1..(Len(s) - 1) |-> IF j < i THEN s[j] ELSE s[j + 1]]

\* The values of a map, in the order of its (integer) keys.
RECURSIVE MapValues(_)
MapValues(map) ==
  IF DOMAIN map = {} THEN <<>>
  ELSE LET k == CHOOSE x \in DOMAIN map : \A y \in DOMAIN map : x <= y
       IN <<map[k]>> \o MapValues(MapErase(map, k))

\* ------------------------------------------------- slave.hpp: the structs

\* struct TaskDescription (args and params are opaque and left out).
TaskDescription(tid, name) == [tid |-> tid, name |-> name]

\* Task::Task(id, resources): frameworkId and state are set by addTask.
Task(id, res) ==
  [id |-> id, frameworkId |-> "", resources |-> res, state |-> "", name |-> ""]

\* Framework::Framework(id, ...): no queued tasks, no tasks, no resources.
Framework(id) ==
  [id |-> id, queuedTasks |-> <<>>, tasks |-> EmptyMap, resources |-> ResZero]

\* Executor::Executor(fid, pid)
Executor(fid, pid) == [frameworkId |-> fid, pid |-> pid]

\* The memory a method of Framework works on: the framework object, the heap
\* of Task objects, the heap of TaskDescription objects, and whether
\* LOG(FATAL) has aborted the process.
Mem(fw, th, dh) == [fw |-> fw, th |-> th, dh |-> dh, fatal |-> FALSE]

\* Framework::lookupTask: whether the find succeeds (a non-NULL result).
lookupTask(fw, tid) == tid \in DOMAIN fw.tasks

\* addTask without the check for a TaskID that is already there.
addTask_NoCheck(m, tid, name, res) ==
  LET task == [Task(tid, res) EXCEPT !.frameworkId = m.fw.id,
                                     !.state = TASK_STARTING,
                                     !.name = name]
  IN [m EXCEPT !.th = New(m.th, task),
               !.fw.tasks = MapPut(m.fw.tasks, tid, task),
               !.fw.resources = ResAdd(m.fw.resources, res)]

\* addTask that does not add the task's resources to the framework's.
addTask_NoAccount(m, tid, name, res) ==
  IF tid \in DOMAIN m.fw.tasks
    THEN [m EXCEPT !.fatal = TRUE]
    ELSE LET task == [Task(tid, res) EXCEPT !.frameworkId = m.fw.id,
                                            !.state = TASK_STARTING,
                                            !.name = name]
         IN [m EXCEPT !.th = New(m.th, task),
                      !.fw.tasks = MapPut(m.fw.tasks, tid, task)]

\* Framework::addTask.  LOG(FATAL) logs and aborts the process: nothing after
\* it runs.
addTask(m, tid, name, res) ==
  IF tid \in DOMAIN m.fw.tasks
    THEN [m EXCEPT !.fatal = TRUE]
    ELSE LET task == [Task(tid, res) EXCEPT !.frameworkId = m.fw.id,
                                            !.state = TASK_STARTING,
                                            !.name = name]
         IN [m EXCEPT !.th = New(m.th, task),
                      !.fw.tasks = MapPut(m.fw.tasks, tid, task),
                      !.fw.resources = ResAdd(m.fw.resources, res)]

\* The position of the first queued TaskDescription with this tid, or 0.
QueuedAt(fw, tid) ==
  LET hits == {i \in DOMAIN fw.queuedTasks : fw.queuedTasks[i].tid = tid}
  IN IF hits = {} THEN 0 ELSE CHOOSE i \in hits : \A j \in hits : i <= j

\* removeTask that subtracts the resources but keeps the Task in the map.
removeTask_KeepRecord(m, tid) ==
  IF tid \in DOMAIN m.fw.tasks
    THEN [m EXCEPT !.fw.resources = ResSub(m.fw.resources, m.fw.tasks[tid].resources)]
    ELSE m

\* removeTask that drops the Task but does not give its resources back.
removeTask_NoFree(m, tid) ==
  IF tid \in DOMAIN m.fw.tasks
    THEN [m EXCEPT !.th = Delete(m.th, m.fw.tasks[tid]),
                   !.fw.tasks = MapErase(m.fw.tasks, tid)]
    ELSE m

\* removeTask that leaves queuedTasks alone.
removeTask_KeepQueued(m, tid) ==
  IF tid \in DOMAIN m.fw.tasks
    THEN [m EXCEPT !.fw.resources = ResSub(m.fw.resources, m.fw.tasks[tid].resources),
                   !.th = Delete(m.th, m.fw.tasks[tid]),
                   !.fw.tasks = MapErase(m.fw.tasks, tid)]
    ELSE m

\* Framework::removeTask: drop the first queued description with this tid,
\* then the Task itself, giving its resources back.
removeTask(m, tid) ==
  LET i == QueuedAt(m.fw, tid)
      m1 == IF i = 0 THEN m
            ELSE [m EXCEPT !.dh = Delete(m.dh, m.fw.queuedTasks[i]),
                           !.fw.queuedTasks = SeqErase(m.fw.queuedTasks, i)]
  IN IF tid \in DOMAIN m1.fw.tasks
       THEN [m1 EXCEPT !.fw.resources = ResSub(m1.fw.resources, m1.fw.tasks[tid].resources),
                       !.th = Delete(m1.th, m1.fw.tasks[tid]),
                       !.fw.tasks = MapErase(m1.fw.tasks, tid)]
       ELSE m1

\* A destructor that frees the queued descriptions only.
DestroyFramework_LeakTasks(m) == [m EXCEPT !.dh = DeleteAll(m.dh, m.fw.queuedTasks)]

\* Framework::~Framework: delete every queued description and every Task.
DestroyFramework(m) ==
  [m EXCEPT !.dh = DeleteAll(m.dh, m.fw.queuedTasks),
            !.th = DeleteAll(m.th, MapValues(m.fw.tasks))]

\* ------------------------------------------------------------------ state

VARIABLES
  frameworks,   \* Slave::frameworks: FrameworkID -> Framework
  executors,    \* Slave::executors: FrameworkID -> Executor
  taskHeap,     \* the live Task objects
  descHeap,     \* the live TaskDescription objects
  aborted,      \* the slave process has aborted (LOG(FATAL))
  resources,    \* Slave::resources: what the slave advertises
  execState,    \* FrameworkID -> the state of its executor process
  killTimers,   \* the armed KILL_TASK timers: pairs <<FrameworkID, TaskID>>
  delivered,    \* FrameworkID -> the TaskIDs sent to its live executor, in order
  toSlave,      \* the messages in flight from the master to the slave
  toMaster,     \* the messages in flight from the slave to the master
  mFrameworks,  \* master: FrameworkID -> its record (tasks, activeOffers)
  mRemoved,     \* master: the FrameworkIDs of the frameworks destroyed
  mSlave,       \* master: its record of the slave (total, offered)
  offers,       \* master: OfferID -> outstanding offer
  nextOfferId,  \* master: the next OfferID to mint
  mLog,         \* master: the diagnostics logged for protocol violations
  zkserver,     \* Slave::zkserver
  master,       \* Slave::master: whom the slave takes for the master
  inbox,        \* the LE2S_NEWLEADER messages queued for the slave's loop
  listener,     \* the leader listener's thread: where it is, what it was given
  observed,     \* the highest epoch a leader event has carried so far
  lastCall,     \* the last call made on a Framework, and what it found
  proc,         \* the master binary: its command line and where main is
  testEnv,      \* the test program: its surroundings, its tests, the gtest filter
  upids         \* UPID values and what the operators of UPID say of them

frameworkVars == <<frameworks, taskHeap, descHeap, aborted>>

slaveVars == <<executors, resources, execState, killTimers, delivered>>

linkVars == <<toSlave, toMaster>>

masterVars == <<mFrameworks, mRemoved, mSlave, offers, nextOfferId, mLog>>

leaderVars == <<zkserver, master, inbox, listener, observed>>

programVars == <<proc, testEnv, upids>>

vars == <<frameworkVars, slaveVars, linkVars, masterVars, leaderVars, lastCall, programVars>>

\* lastCall: the method, its arguments, whether the TaskID was in the tasks
\* map when it was called, and (for removeTask) whether the calls just before
\* it were removals of the same task, the first of which found it.
NoCall == [op |-> "none", fid |-> "", tid |-> 0, present |-> FALSE, repeat |-> FALSE]

\* The states of an executor process (spec section 4.3).
GONE == "GONE"
STARTING == "STARTING"
RUNNING == "RUNNING"
SHUTTING_DOWN == "SHUTTING_DOWN"

\* What the constructor of a fault-tolerant slave is given: the locator of
\* the election service, and the master of the command line.
ZkLocator == "zoo://ensemble"

FirstMaster == "master@m0"

\* The listener's thread between two callbacks, and inside the callback for
\* the event (zkId, pidStr) after the write and before the send; stale says
\* that the event's epoch was not above every epoch seen before it.
Idle == [pc |-> "idle", zkId |-> "", pidStr |-> "", stale |-> FALSE]

\* A program that is not part of the run.
Absent == [pc |-> "absent"]

\* The master and the slave after construction.
InitCluster ==
  /\ frameworks = EmptyMap
  /\ executors = EmptyMap
  /\ taskHeap = EmptyHeap
  /\ descHeap = EmptyHeap
  /\ aborted = FALSE
  /\ resources = SlaveTotal
  /\ execState = [f \in FrameworkIDs |-> GONE]
  /\ killTimers = {}
  /\ delivered = [f \in FrameworkIDs |-> <<>>]
  /\ toSlave = <<>>
  /\ toMaster = <<>>
  /\ mFrameworks = EmptyMap
  /\ mRemoved = {}
  /\ mSlave = [total |-> SlaveTotal, offered |-> ResZero]
  /\ offers = EmptyMap
  /\ nextOfferId = 1
  /\ mLog = {}
  /\ zkserver = ZkLocator
  /\ master = FirstMaster
  /\ inbox = <<>>
  /\ listener = Idle
  /\ observed = 0
  /\ lastCall = NoCall

\* The master and the slave after construction; the master's main, the test
\* environment and the UPID operators are the subject of specifications of
\* their own.
Init ==
  /\ InitCluster
  /\ proc = Absent
  /\ testEnv = Absent
  /\ upids = Absent

\* The memory of framework f, and the state after a method ran on it.
MemOf(f) == Mem(frameworks[f], taskHeap, descHeap)

Store(f, m) ==
  /\ aborted' = m.fatal
  /\ frameworks' = IF m.fatal THEN frameworks ELSE MapPut(frameworks, f, m.fw)
  /\ taskHeap' = IF m.fatal THEN taskHeap ELSE m.th
  /\ descHeap' = IF m.fatal THEN descHeap ELSE m.dh

\* ------------------------------------- SpecFramework: the struct's methods

\* new Framework(f, ...)
CallNewFramework(f) ==
  /\ ~aborted
  /\ f \notin DOMAIN frameworks
  /\ frameworks' = MapPut(frameworks, f, Framework(f))
  /\ lastCall' = [NoCall EXCEPT !.op = "new", !.fid = f]
  /\ UNCHANGED <<taskHeap, descHeap, aborted, slaveVars, linkVars, masterVars, leaderVars, programVars>>

\* framework->addTask(tid, name, res)
CallAddTask(f, tid, name, res) ==
  /\ ~aborted
  /\ f \in DOMAIN frameworks
  /\ Store(f, addTask(MemOf(f), tid, name, res))
  /\ lastCall' = [NoCall EXCEPT !.op = "addTask", !.fid = f, !.tid = tid,
                                !.present = tid \in DOMAIN frameworks[f].tasks]
  /\ UNCHANGED <<slaveVars, linkVars, masterVars, leaderVars, programVars>>

\* framework->queuedTasks.push_back(new TaskDescription(tid, name, ...)), as
\* the slave does for a task it has just added while no executor is there.
CallQueueTask(f, tid, name) ==
  /\ ~aborted
  /\ f \in DOMAIN frameworks
  /\ tid \in DOMAIN frameworks[f].tasks
  /\ QueuedAt(frameworks[f], tid) = 0
  /\ LET desc == TaskDescription(tid, name)
     IN /\ descHeap' = New(descHeap, desc)
        /\ frameworks' = [frameworks EXCEPT ![f].queuedTasks = Append(@, desc)]
  /\ lastCall' = [NoCall EXCEPT !.op = "queue", !.fid = f, !.tid = tid]
  /\ UNCHANGED <<taskHeap, aborted, slaveVars, linkVars, masterVars, leaderVars, programVars>>

\* framework->removeTask(tid)
CallRemoveTask(f, tid) ==
  /\ ~aborted
  /\ f \in DOMAIN frameworks
  /\ Store(f, removeTask(MemOf(f), tid))
  /\ lastCall' = [op |-> "removeTask", fid |-> f, tid |-> tid,
                  present |-> tid \in DOMAIN frameworks[f].tasks,
                  repeat |-> /\ lastCall.op = "removeTask"
                             /\ lastCall.fid = f
                             /\ lastCall.tid = tid
                             /\ (lastCall.present \/ lastCall.repeat)]
  /\ UNCHANGED <<slaveVars, linkVars, masterVars, leaderVars, programVars>>

\* delete framework
CallDeleteFramework(f) ==
  /\ ~aborted
  /\ f \in DOMAIN frameworks
  /\ LET m == DestroyFramework(MemOf(f))
     IN /\ taskHeap' = m.th
        /\ descHeap' = m.dh
  /\ frameworks' = MapErase(frameworks, f)
  /\ lastCall' = [NoCall EXCEPT !.op = "delete", !.fid = f]
  /\ UNCHANGED <<aborted, slaveVars, linkVars, masterVars, leaderVars, programVars>>

NextFramework ==
  \/ \E f \in FrameworkIDs : CallNewFramework(f)
  \/ \E f \in FrameworkIDs, tid \in TaskIDs, name \in TaskNames, res \in TaskResources :
       CallAddTask(f, tid, name, res)
  \/ \E f \in FrameworkIDs, tid \in TaskIDs, name \in TaskNames : CallQueueTask(f, tid, name)
  \/ \E f \in FrameworkIDs, tid \in TaskIDs : CallRemoveTask(f, tid)
  \/ \E f \in FrameworkIDs : CallDeleteFramework(f)

SpecFramework == Init /\ [][NextFramework]_vars

\* ------------------------------------------- the slave's message handlers

\* The handlers live in slave.cpp, which is not part of the sources: they
\* follow the specification (section 4.3) and the declarations of slave.hpp,
\* and call the methods of Framework modelled above.

\* The keys of a map with integer keys, in ascending order.
RECURSIVE KeySeq(_)
KeySeq(map) ==
  IF DOMAIN map = {} THEN <<>>
  ELSE LET k == CHOOSE x \in DOMAIN map : \A y \in DOMAIN map : x <= y
       IN <<k>> \o KeySeq(MapErase(map, k))

\* The TaskIDs of the queued descriptions, in queue order.
QueuedTids(fw) == [i \in DOMAIN fw.queuedTasks |-> fw.queuedTasks[i].tid]

\* The TaskIDs queued for framework f (none when the slave has no record).
QueuedTidsOf(f) == IF f \in DOMAIN frameworks THEN QueuedTids(frameworks[f]) ELSE <<>>

\* task->state = st, through the pointer the tasks map holds.
SetTaskState(m, tid, st) ==
  LET old == m.fw.tasks[tid]
      new == [old EXCEPT !.state = st]
  IN [m EXCEPT !.th = New(Delete(m.th, old), new), !.fw.tasks[tid] = new]

RECURSIVE RemoveTasks(_, _)
\* removeTask for each TaskID of a sequence.
RemoveTasks(m, tids) ==
  IF tids = <<>> THEN m ELSE RemoveTasks(removeTask(m, Head(tids)), Tail(tids))

StatusUpdate(f, tid, st) == [type |-> "STATUS_UPDATE", fid |-> f, tid |-> tid, state |-> st]

\* One status update per TaskID of a sequence.
StatusUpdates(f, tids, st) == [i \in DOMAIN tids |-> StatusUpdate(f, tids[i], st)]

ExecutorPid(f) == <<"executor", f>>

\* sendQueuedTasks that sends the queue and leaves it as it is.
sendQueuedTasks_KeepQueue(m) == m

\* Slave::sendQueuedTasks: every queued description is sent to the executor
\* in queue order (QueuedTids) and deleted; the queue is left empty.
sendQueuedTasks(m) ==
  [m EXCEPT !.dh = DeleteAll(m.dh, m.fw.queuedTasks), !.fw.queuedTasks = <<>>]

\* Slave::removeExecutor(frameworkId, killProcess): drop the Executor record
\* and the timers armed for it; killProcess asks the isolation module to kill
\* the process, otherwise the process has exited already.
removeExecutor(f, killProcess) ==
  /\ executors' = MapErase(executors, f)
  /\ execState' = [execState EXCEPT ![f] = IF killProcess THEN SHUTTING_DOWN ELSE GONE]
  /\ killTimers' = {t \in killTimers : t[1] # f}
  /\ delivered' = [delivered EXCEPT ![f] = <<>>]

\* RUN_TASK(f, task): the framework record is made on its first task; the
\* task is added; with a registered executor it is forwarded, otherwise it is
\* queued and an executor is started if none is there.
HandleRunTask(f, tid, name, res) ==
  /\ ~aborted
  /\ LET fw0 == IF f \in DOMAIN frameworks THEN frameworks[f] ELSE Framework(f)
         m == addTask(Mem(fw0, taskHeap, descHeap), tid, name, res)
         desc == TaskDescription(tid, name)
         queued == [m EXCEPT !.dh = New(m.dh, desc),
                             !.fw.queuedTasks = Append(@, desc)]
     IN IF m.fatal
          THEN /\ Store(f, m)
               /\ UNCHANGED <<execState, delivered>>
          ELSE /\ IF f \in DOMAIN executors
                    THEN /\ Store(f, m)
                         /\ delivered' = [delivered EXCEPT ![f] = Append(@, tid)]
                         /\ UNCHANGED execState
                    ELSE /\ Store(f, queued)
                         /\ execState' = [execState EXCEPT ![f] = IF @ = GONE THEN STARTING ELSE @]
                         /\ UNCHANGED delivered
  /\ UNCHANGED <<executors, killTimers, toMaster, resources>>

\* The executor of f registers: its record is made and the queue is flushed.
\* An executor whose framework is gone is told to shut down.
HandleRegisterExecutor(f) ==
  /\ ~aborted
  /\ execState[f] = STARTING
  /\ IF f \in DOMAIN frameworks
       THEN /\ executors' = MapPut(executors, f, Executor(f, ExecutorPid(f)))
            /\ execState' = [execState EXCEPT ![f] = RUNNING]
            /\ delivered' = [delivered EXCEPT ![f] = @ \o QueuedTids(frameworks[f])]
            /\ Store(f, sendQueuedTasks(MemOf(f)))
       ELSE /\ execState' = [execState EXCEPT ![f] = SHUTTING_DOWN]
            /\ UNCHANGED <<executors, delivered, frameworkVars>>
  /\ UNCHANGED <<killTimers, toMaster, resources>>

\* STATUS_UPDATE from the executor of f: the local task is updated, a
\* terminal state removes it (and cancels the timer armed for it), and the
\* update goes on to the master.  An update for a task the slave does not
\* hold is dropped.
HandleStatusUpdate(f, tid, st) ==
  /\ ~aborted
  /\ f \in DOMAIN executors
  /\ Len(toMaster) < MaxQueue
  /\ IF f \in DOMAIN frameworks /\ lookupTask(frameworks[f], tid)
       THEN LET m == SetTaskState(MemOf(f), tid, st)
            IN /\ Store(f, IF st \in TerminalStates THEN removeTask(m, tid) ELSE m)
               /\ killTimers' = IF st \in TerminalStates THEN killTimers \ {<<f, tid>>}
                                                          ELSE killTimers
               /\ toMaster' = Append(toMaster, StatusUpdate(f, tid, st))
       ELSE UNCHANGED <<frameworkVars, killTimers, toMaster>>
  /\ UNCHANGED <<executors, resources, execState, delivered>>

\* KILL_TASK(f, tid): a queued task is removed and reported KILLED; a task
\* the executor holds is left to the executor and a timer is armed.
HandleKillTask(f, tid) ==
  /\ ~aborted
  /\ Len(toMaster) < MaxQueue
  /\ IF f \in DOMAIN frameworks /\ QueuedAt(frameworks[f], tid) # 0
       THEN /\ Store(f, removeTask(MemOf(f), tid))
            /\ toMaster' = Append(toMaster, StatusUpdate(f, tid, TASK_KILLED))
            /\ UNCHANGED killTimers
       ELSE /\ killTimers' =
                 IF /\ f \in DOMAIN frameworks
                    /\ lookupTask(frameworks[f], tid)
                    /\ f \in DOMAIN executors
                   THEN killTimers \cup {<<f, tid>>}
                   ELSE killTimers
            /\ UNCHANGED <<frameworkVars, toMaster>>
  /\ UNCHANGED <<executors, resources, execState, delivered>>

\* The timer of KILL_TASK(f, tid) expires: if the task is still there the
\* executor is killed and every task it still has is reported LOST.
HandleKillTimer(f, tid) ==
  /\ ~aborted
  /\ <<f, tid>> \in killTimers
  /\ IF f \in DOMAIN frameworks /\ lookupTask(frameworks[f], tid) /\ f \in DOMAIN executors
       THEN LET tids == KeySeq(frameworks[f].tasks)
            IN /\ Len(toMaster) < MaxQueue
               /\ removeExecutor(f, TRUE)
               /\ Store(f, RemoveTasks(MemOf(f), tids))
               /\ toMaster' = toMaster \o StatusUpdates(f, tids, TASK_LOST)
       ELSE /\ killTimers' = killTimers \ {<<f, tid>>}
            /\ UNCHANGED <<frameworkVars, executors, execState, delivered, toMaster>>
  /\ UNCHANGED resources

\* Slave::executorExited(f, status): every task of f still there is reported
\* LOST, the executor record is dropped, the framework record stays.
executorExited(f) ==
  /\ ~aborted
  /\ execState[f] # GONE
  /\ removeExecutor(f, FALSE)
  /\ IF f \in DOMAIN frameworks
       THEN LET tids == KeySeq(frameworks[f].tasks)
            IN /\ Len(toMaster) < MaxQueue
               /\ Store(f, RemoveTasks(MemOf(f), tids))
               /\ toMaster' = toMaster \o StatusUpdates(f, tids, TASK_LOST)
       ELSE UNCHANGED <<frameworkVars, toMaster>>
  /\ UNCHANGED resources

\* killFramework that forgets the executor.
killFramework_KeepExecutor(f) ==
  /\ LET m == DestroyFramework(MemOf(f))
     IN /\ taskHeap' = m.th
        /\ descHeap' = m.dh
  /\ frameworks' = MapErase(frameworks, f)
  /\ UNCHANGED <<aborted, executors, execState, killTimers, delivered>>

\* Slave::killFramework(fw): kill the framework, its executor included.
killFramework(f) ==
  /\ IF execState[f] # GONE
       THEN removeExecutor(f, TRUE)
       ELSE UNCHANGED <<executors, execState, killTimers, delivered>>
  /\ LET m == DestroyFramework(MemOf(f))
     IN /\ taskHeap' = m.th
        /\ descHeap' = m.dh
  /\ frameworks' = MapErase(frameworks, f)
  /\ UNCHANGED aborted

\* KILL_FRAMEWORK(f) from the master.
HandleKillFramework(f) ==
  /\ ~aborted
  /\ IF f \in DOMAIN frameworks
       THEN killFramework(f)
       ELSE UNCHANGED <<frameworkVars, executors, execState, killTimers, delivered>>
  /\ UNCHANGED <<resources, toMaster>>

\* ------------------------------------------------------------ the master

\* The master lives in master.cpp, which is not part of the sources: its
\* records and handlers follow the specification (sections 3 and 4.2).

\* The sizes of offer the allocator hands out.
OfferSizes == {Resources(1, 2), Resources(2, 5)}

\* What a framework may ask to launch with one LAUNCH_TASKS: up to two tasks,
\* each of the size LaunchResources.
LaunchResources == {Resources(1, 2)}

LaunchTaskIDs == {1, 2}

TaskRequests == [tid : LaunchTaskIDs, name : TaskNames, resources : LaunchResources]

LaunchRequests ==
  {<<>>} \cup {<<a>> : a \in TaskRequests} \cup {<<a, b>> : a \in TaskRequests, b \in TaskRequests}

\* The master's record of a framework and of a task.
MasterFramework == [tasks |-> EmptyMap, activeOffers |-> {}]

MasterTask(res) == [resources |-> res, state |-> TASK_STARTING]

\* The resources of the tasks of a tasks map that are not terminal.
TasksUsed(tasks) ==
  LET live == [t \in {x \in DOMAIN tasks : tasks[x].state \notin TerminalStates} |-> tasks[t]]
  IN ResSum([i \in DOMAIN KeySeq(live) |-> live[KeySeq(live)[i]].resources])

RECURSIVE UsedBy(_)
\* The resources used by the tasks of a set of frameworks.
UsedBy(fs) ==
  IF fs = {} THEN ResZero
  ELSE LET f == CHOOSE x \in fs : TRUE
       IN ResAdd(TasksUsed(mFrameworks[f].tasks), UsedBy(fs \ {f}))

\* The master's view of the slave: used by tasks, and free for new offers.
MasterUsed == UsedBy(DOMAIN mFrameworks)

MasterFree == ResSub(ResSub(mSlave.total, MasterUsed), mSlave.offered)

RunTask(f, req) ==
  [type |-> "RUN_TASK", fid |-> f, tid |-> req.tid, name |-> req.name,
   resources |-> req.resources]

KillFramework(f) == [type |-> "KILL_FRAMEWORK", fid |-> f]

\* The resources locked in the offers of a set of OfferIDs.
RECURSIVE OfferedIn(_)
OfferedIn(os) ==
  IF os = {} THEN ResZero
  ELSE LET o == CHOOSE x \in os : TRUE
       IN ResAdd(offers[o].resources, OfferedIn(os \ {o}))

\* REGISTER_FRAMEWORK: a FrameworkID is minted once and stored.
RegisterFramework(f) ==
  /\ f \notin DOMAIN mFrameworks
  /\ f \notin mRemoved
  /\ mFrameworks' = MapPut(mFrameworks, f, MasterFramework)
  /\ UNCHANGED <<mRemoved, mSlave, offers, nextOfferId, mLog, toSlave>>

\* Offer issuance: the allocator picks a part of what is free on the slave;
\* the master mints an OfferID and records the offer against the framework
\* and the slave.
MakeOffer(f, res) ==
  /\ f \in DOMAIN mFrameworks
  /\ nextOfferId <= MaxOffers
  /\ ResLeq(res, MasterFree)
  /\ offers' = MapPut(offers, nextOfferId, [frameworkId |-> f, resources |-> res])
  /\ mFrameworks' = [mFrameworks EXCEPT ![f].activeOffers = @ \cup {nextOfferId}]
  /\ mSlave' = [mSlave EXCEPT !.offered = ResAdd(@, res)]
  /\ nextOfferId' = nextOfferId + 1
  /\ UNCHANGED <<mRemoved, mLog, toSlave>>

\* A destruction of framework f that leaves its offers outstanding.
RemoveFramework_KeepOffers(f, tasks, sent) ==
  /\ UNCHANGED <<offers, mSlave>>
  /\ mFrameworks' = MapErase(mFrameworks, f)
  /\ mRemoved' = mRemoved \cup {f}
  /\ toSlave' = toSlave \o sent \o (IF DOMAIN tasks = {} THEN <<>> ELSE <<KillFramework(f)>>)

\* The destruction of framework f, whose tasks are `tasks` and for which the
\* messages `sent` go out first: its offers are dropped, its tasks are killed
\* on the slave that hosts them, its record goes with its tasks.
RemoveFramework(f, tasks, sent) ==
  /\ offers' = [o \in DOMAIN offers \ mFrameworks[f].activeOffers |-> offers[o]]
  /\ mSlave' = [mSlave EXCEPT !.offered = ResSub(@, OfferedIn(mFrameworks[f].activeOffers))]
  /\ mFrameworks' = MapErase(mFrameworks, f)
  /\ mRemoved' = mRemoved \cup {f}
  /\ toSlave' = toSlave \o sent \o (IF DOMAIN tasks = {} THEN <<>> ELSE <<KillFramework(f)>>)

RECURSIVE Validate(_, _)
\* LAUNCH_TASKS, task by task: st holds the framework's tasks so far, what is
\* left of the offer, the RUN_TASKs to send, and how a task broke the
\* protocol if one did (a TaskID already known, or more than the offer has
\* left).
Validate(st, reqs) ==
  IF reqs = <<>> THEN st
  ELSE LET req == Head(reqs)
       IN IF req.tid \in DOMAIN st.tasks
            THEN [st EXCEPT !.violation = "duplicate TaskID"]
          ELSE IF ~ResLeq(req.resources, st.left)
            THEN [st EXCEPT !.violation = "more than the offer"]
            ELSE Validate([tasks |-> MapPut(st.tasks, req.tid, MasterTask(req.resources)),
                           left |-> ResSub(st.left, req.resources),
                           sent |-> Append(st.sent, req),
                           violation |-> ""],
                          Tail(reqs))

\* LAUNCH_TASKS(o, reqs) from framework f, for any reqs of LaunchRequests.  An offer that is not alive, or
\* not this framework's, launches nothing.  Otherwise the offer is consumed,
\* the valid tasks are recorded and forwarded, what is left of the offer is
\* free again, and a protocol violation disconnects the framework.
LaunchTasks(f, o) ==
  /\ f \in DOMAIN mFrameworks
  /\ o \in 1..(nextOfferId - 1)
  /\ IF o \notin mFrameworks[f].activeOffers
       THEN UNCHANGED <<masterVars, toSlave>>
       ELSE \E reqs \in LaunchRequests :
            LET st == Validate([tasks |-> mFrameworks[f].tasks,
                                left |-> offers[o].resources,
                                sent |-> <<>>,
                                violation |-> ""], reqs)
                sent == [i \in DOMAIN st.sent |-> RunTask(f, st.sent[i])]
            IN /\ Len(toSlave) < MaxQueue
               /\ UNCHANGED nextOfferId
               /\ IF st.violation # ""
                    THEN /\ RemoveFramework(f, st.tasks, sent)
                         /\ mLog' = mLog \cup {[fid |-> f, why |-> st.violation]}
                    ELSE /\ offers' = MapErase(offers, o)
                         /\ mSlave' = [mSlave EXCEPT !.offered = ResSub(@, offers[o].resources)]
                         /\ mFrameworks' = [mFrameworks EXCEPT ![f].tasks = st.tasks,
                                                               ![f].activeOffers = @ \ {o}]
                         /\ toSlave' = toSlave \o sent
                         /\ UNCHANGED <<mRemoved, mLog>>

\* UNREGISTER_FRAMEWORK, or EXITED for the framework's link.
UnregisterFramework(f) ==
  /\ f \in DOMAIN mFrameworks
  /\ Len(toSlave) < MaxQueue
  /\ RemoveFramework(f, mFrameworks[f].tasks, <<>>)
  /\ UNCHANGED <<nextOfferId, mLog>>

\* A master that takes an update for any task it knows.
Accepts_Any(msg) ==
  /\ msg.fid \in DOMAIN mFrameworks
  /\ msg.tid \in DOMAIN mFrameworks[msg.fid].tasks

\* An update the master takes: for a task it knows that is not terminal yet.
Accepts(msg) ==
  /\ msg.fid \in DOMAIN mFrameworks
  /\ msg.tid \in DOMAIN mFrameworks[msg.fid].tasks
  /\ mFrameworks[msg.fid].tasks[msg.tid].state \notin TerminalStates

\* STATUS_UPDATE from the slave: the task's state is updated (a terminal state
\* frees its resources); an update the master does not take is dropped.
MasterStatusUpdate ==
  /\ toMaster # <<>>
  /\ LET msg == Head(toMaster)
     IN mFrameworks' = IF Accepts(msg)
                         THEN [mFrameworks EXCEPT ![msg.fid].tasks[msg.tid].state = msg.state]
                         ELSE mFrameworks
  /\ toMaster' = Tail(toMaster)
  /\ UNCHANGED <<mRemoved, mSlave, offers, nextOfferId, mLog, toSlave>>

\* ------------------------------------------------- Spec: master and slave

\* What an executor reports about a task.
ExecutorUpdates == {TASK_RUNNING, TASK_FINISHED}

\* Whether a slave-side framework has a Task or a queued description.
Holds(fw) == fw.tasks # EmptyMap \/ fw.queuedTasks # <<>>

\* The slave takes the next message of the master off its queue; the
\* destruction of a framework is noted in lastCall.
SlaveReceive ==
  /\ toSlave # <<>>
  /\ LET msg == Head(toSlave)
     IN \/ /\ msg.type = "RUN_TASK"
           /\ HandleRunTask(msg.fid, msg.tid, msg.name, msg.resources)
           /\ UNCHANGED lastCall
        \/ /\ msg.type = "KILL_FRAMEWORK"
           /\ HandleKillFramework(msg.fid)
           /\ lastCall' = IF msg.fid \in DOMAIN frameworks
                             THEN [NoCall EXCEPT !.op = "delete", !.fid = msg.fid,
                                                 !.present = Holds(frameworks[msg.fid])]
                             ELSE lastCall
  /\ toSlave' = Tail(toSlave)
  /\ UNCHANGED <<masterVars, leaderVars, programVars>>

\* A message of an executor, a timer or the isolation module reaches the slave.
SlaveLocal ==
  /\ \/ \E f \in FrameworkIDs : HandleRegisterExecutor(f)
     \/ \E f \in FrameworkIDs, tid \in LaunchTaskIDs, st \in ExecutorUpdates :
          HandleStatusUpdate(f, tid, st)
     \/ \E f \in FrameworkIDs : executorExited(f)
  /\ UNCHANGED <<toSlave, masterVars, leaderVars, programVars, lastCall>>

\* The master handles a message of a framework or of the slave, or offers.
MasterStep ==
  /\ \/ \E f \in FrameworkIDs : RegisterFramework(f) /\ UNCHANGED toMaster
     \/ \E f \in FrameworkIDs, res \in OfferSizes : MakeOffer(f, res) /\ UNCHANGED toMaster
     \/ \E f \in FrameworkIDs, o \in 1..MaxOffers : LaunchTasks(f, o) /\ UNCHANGED toMaster
     \/ \E f \in FrameworkIDs : UnregisterFramework(f) /\ UNCHANGED toMaster
     \/ MasterStatusUpdate
  /\ UNCHANGED <<frameworkVars, slaveVars, leaderVars, programVars, lastCall>>

Next == SlaveReceive \/ SlaveLocal \/ MasterStep

Spec == Init /\ [][Next]_vars

\* ----------------------------- SpecStale: a RUN_TASK for a task held already

RECURSIVE Handed(_)
\* The number of tasks queued for, or sent to, the executors of a set of
\* frameworks.
Handed(fs) ==
  IF fs = {} THEN 0
  ELSE LET f == CHOOSE x \in fs : TRUE
       IN Len(delivered[f]) + Len(QueuedTidsOf(f)) + Handed(fs \ {f})

\* A RUN_TASK that the leading master did not send reaches the slave, for a
\* task the slave holds already: two masters may both believe they lead and
\* both handle the LAUNCH_TASKS of a framework, and the transport takes a
\* message from any sender.
StrayRunTask(f, tid, name, res) ==
  /\ f \in DOMAIN frameworks
  /\ lookupTask(frameworks[f], tid)
  /\ HandleRunTask(f, tid, name, res)
  /\ lastCall' = [NoCall EXCEPT !.op = "addTask", !.fid = f, !.tid = tid, !.present = TRUE]
  /\ UNCHANGED <<toSlave, masterVars, leaderVars, programVars>>

NextStale ==
  \/ Next
  \/ \E f \in FrameworkIDs, tid \in LaunchTaskIDs, name \in TaskNames, res \in LaunchResources :
       StrayRunTask(f, tid, name, res)

SpecStale == Init /\ [][NextStale]_vars

\* --------------------------------- SpecSlave: the slave, any message order

\* The slave handles any sequence of the messages it understands; the link
\* to the master delivers what the slave sent.
EnvRunTask(f, tid, name, res) ==
  /\ Handed(FrameworkIDs) < MaxDelivered
  /\ HandleRunTask(f, tid, name, res)

DeliverToMaster ==
  /\ toMaster # <<>>
  /\ toMaster' = Tail(toMaster)
  /\ UNCHANGED <<frameworkVars, slaveVars>>

\* The executor of f registers; a flush of two or more queued tasks is noted
\* in lastCall.
EnvRegisterExecutor(f) ==
  /\ HandleRegisterExecutor(f)
  /\ lastCall' = IF Len(QueuedTidsOf(f)) >= 2
                    THEN [NoCall EXCEPT !.op = "sendQueuedTasks", !.fid = f]
                    ELSE lastCall

NextSlave ==
  /\ \/ /\ \/ \E f \in FrameworkIDs, tid \in LaunchTaskIDs, name \in TaskNames,
                    res \in LaunchResources : EnvRunTask(f, tid, name, res)
           \/ \E f \in FrameworkIDs, tid \in LaunchTaskIDs : HandleKillTask(f, tid)
           \/ \E f \in FrameworkIDs, tid \in LaunchTaskIDs : HandleKillTimer(f, tid)
           \/ \E f \in FrameworkIDs : HandleKillFramework(f)
           \/ \E f \in FrameworkIDs, tid \in LaunchTaskIDs, st \in ExecutorUpdates :
                HandleStatusUpdate(f, tid, st)
           \/ \E f \in FrameworkIDs : executorExited(f)
           \/ DeliverToMaster
        /\ UNCHANGED lastCall
     \/ \E f \in FrameworkIDs : EnvRegisterExecutor(f)
  /\ UNCHANGED <<toSlave, masterVars, leaderVars, programVars>>

SpecSlave == Init /\ [][NextSlave]_vars

\* ------------------------------ SpecOffers: every LAUNCH_TASKS is noted

\* LAUNCH_TASKS(o, ...) from framework f, noted in lastCall with the OfferID
\* and whether the offer was alive and the framework's.
NotedLaunchTasks(f, o) ==
  /\ LaunchTasks(f, o)
  /\ lastCall' = [NoCall EXCEPT !.op = "launch", !.fid = f, !.tid = o,
                                !.present = o \in mFrameworks[f].activeOffers]
  /\ UNCHANGED <<toMaster, frameworkVars, slaveVars, leaderVars, programVars>>

\* The messages of the frameworks, and the offers; the slave takes what the
\* master sends it, and its executors stay silent.
MasterOffers ==
  /\ \/ \E f \in FrameworkIDs : RegisterFramework(f)
     \/ \E f \in FrameworkIDs, res \in OfferSizes : MakeOffer(f, res)
     \/ \E f \in FrameworkIDs : UnregisterFramework(f)
  /\ UNCHANGED <<toMaster, frameworkVars, slaveVars, leaderVars, programVars, lastCall>>

NextOffers ==
  \/ SlaveReceive
  \/ MasterOffers
  \/ \E f \in FrameworkIDs, o \in 1..MaxOffers : NotedLaunchTasks(f, o)

SpecOffers == Init /\ [][NextOffers]_vars

\* ------------------- SpecLate: a status update for a task that is over

\* The states a late STATUS_UPDATE may carry.
LateStates == {TASK_STARTING, TASK_RUNNING, TASK_FINISHED, TASK_LOST}

\* A STATUS_UPDATE reaches the master for a task it holds as terminal (an
\* executor or a slave repeats itself, or an update was overtaken); the
\* master handles it as any other STATUS_UPDATE.
LateStatusUpdate(f, tid, st) ==
  /\ f \in DOMAIN mFrameworks
  /\ tid \in DOMAIN mFrameworks[f].tasks
  /\ mFrameworks[f].tasks[tid].state \in TerminalStates
  /\ LET msg == StatusUpdate(f, tid, st)
     IN mFrameworks' = IF Accepts(msg)
                         THEN [mFrameworks EXCEPT ![msg.fid].tasks[msg.tid].state = msg.state]
                         ELSE mFrameworks
  /\ lastCall' = [NoCall EXCEPT !.op = "statusUpdate", !.fid = f, !.tid = tid,
                                !.present = TRUE]
  /\ UNCHANGED <<mRemoved, mSlave, offers, nextOfferId, mLog>>
  /\ UNCHANGED <<frameworkVars, slaveVars, linkVars, leaderVars, programVars>>

NextLate ==
  \/ Next
  \/ \E f \in FrameworkIDs, tid \in LaunchTaskIDs, st \in LateStates :
       LateStatusUpdate(f, tid, st)

SpecLate == Init /\ [][NextLate]_vars

\* ------------------------- SpecQueue: one framework's queue, three tasks

\* The framework and the TaskIDs of SpecQueue.
QueueFramework == "f1"

QueueTaskIDs == {1, 2, 3}

\* RUN_TASK for the framework, while not every TaskID has been handed on.
QueueRunTask(tid, name, res) ==
  /\ Handed({QueueFramework}) < Cardinality(QueueTaskIDs)
  /\ HandleRunTask(QueueFramework, tid, name, res)

NextQueue ==
  /\ \/ /\ \/ \E tid \in QueueTaskIDs, name \in TaskNames, res \in LaunchResources :
                QueueRunTask(tid, name, res)
           \/ \E tid \in QueueTaskIDs : HandleKillTask(QueueFramework, tid)
           \/ \E tid \in QueueTaskIDs : HandleKillTimer(QueueFramework, tid)
           \/ \E tid \in QueueTaskIDs, st \in ExecutorUpdates :
                HandleStatusUpdate(QueueFramework, tid, st)
           \/ executorExited(QueueFramework)
           \/ DeliverToMaster
        /\ UNCHANGED lastCall
     \/ EnvRegisterExecutor(QueueFramework)
  /\ UNCHANGED <<toSlave, masterVars, leaderVars, programVars>>

SpecQueue == Init /\ [][NextQueue]_vars

\* ------------------------------------- SpecLeader: the leader listener

\* The ephemeral ids the election service hands out (the epoch ids; none is
\* the empty string), and the master identities an event may carry.
ZkIds == {"", "1", "2"}

PidStrs == {"", "master@m1", "master@m2"}

\* The epoch an ephemeral id stands for.
EpochOf(zkId) == CASE zkId = "" -> 0 [] zkId = "1" -> 1 [] zkId = "2" -> 2

\* SlaveLeaderListener::newLeaderElected(zkId, pidStr), called on the
\* watcher's thread, up to and including the write of parent->zkserver.
newLeaderElected(zkId, pidStr) ==
  /\ listener.pc = "idle"
  /\ observed' = IF EpochOf(zkId) > observed THEN EpochOf(zkId) ELSE observed
  /\ IF zkId # ""
       THEN /\ zkserver' = pidStr
            /\ listener' = [pc |-> "send", zkId |-> zkId, pidStr |-> pidStr,
                            stale |-> EpochOf(zkId) <= observed]
       ELSE /\ listener' = [Idle EXCEPT !.pidStr = pidStr, !.stale = TRUE]
            /\ UNCHANGED zkserver
  /\ UNCHANGED <<master, inbox>>

\* The rest of the callback: parent->send(parentPID, pack<LE2S_NEWLEADER>(pidStr)).
sendNewLeader ==
  /\ listener.pc = "send"
  /\ Len(inbox) < MaxInbox
  /\ inbox' = Append(inbox, [type |-> "LE2S_NEWLEADER", pidStr |-> listener.pidStr])
  /\ listener' = [listener EXCEPT !.pc = "idle"]
  /\ UNCHANGED <<zkserver, master, observed>>

\* The slave's loop takes an LE2S_NEWLEADER off its queue and turns to the
\* master it names (slave.cpp is not part of the sources; section 4.3).
HandleNewLeader ==
  /\ inbox # <<>>
  /\ master' = Head(inbox).pidStr
  /\ inbox' = Tail(inbox)
  /\ UNCHANGED <<zkserver, listener, observed>>

NextLeader ==
  /\ \/ \E zkId \in ZkIds, pidStr \in PidStrs : newLeaderElected(zkId, pidStr)
     \/ sendNewLeader
     \/ HandleNewLeader
  /\ UNCHANGED <<frameworkVars, slaveVars, linkVars, masterVars, lastCall, programVars>>

SpecLeader == Init /\ [][NextLeader]_vars

\* ----------------------------------------------------------------- claims

\* The number of live Task objects of framework f with TaskID tid.
LiveTasks(f, tid) ==
  LET objs == {t \in BagToSet(taskHeap) : t.frameworkId = f /\ t.id = tid}
      RECURSIVE Sum(_)
      Sum(S) == IF S = {} THEN 0
                ELSE LET t == CHOOSE x \in S : TRUE
                     IN CopiesIn(t, taskHeap) + Sum(S \ {t})
  IN Sum(objs)

\* C2 (task uniqueness): in every state there is at most one live Task per
\* (frameworkId, TaskID), and an entry of a tasks map is the live Task with
\* that id; and an addTask for a TaskID that is already in the map changes
\* neither the map nor the Task objects.
C2_TaskUniqueness ==
  /\ [](\A f \in FrameworkIDs, tid \in TaskIDs :
         /\ LiveTasks(f, tid) <= 1
         /\ (f \in DOMAIN frameworks /\ tid \in DOMAIN frameworks[f].tasks) =>
              /\ frameworks[f].tasks[tid].id = tid
              /\ frameworks[f].tasks[tid].frameworkId = f
              /\ BagIn(frameworks[f].tasks[tid], taskHeap))
  /\ [][(lastCall'.op = "addTask" /\ lastCall'.present) =>
          (frameworks' = frameworks /\ taskHeap' = taskHeap)]_vars

\* C2's case: an addTask was given a TaskID that was already in the map, and
\* the record it found is still there.
C2_Witness ==
  /\ lastCall.op = "addTask"
  /\ lastCall.present
  /\ lastCall.tid \in DOMAIN frameworks[lastCall.fid].tasks

\* C3 (freed exactly once): a removeTask that finds the task subtracts that
\* task's resources from the framework's, deletes the Task and drops the
\* entry; a removeTask that does not find it (a repeated removal, or a
\* TaskID never added) changes nothing of the framework nor of the heaps.
C3_FreedOnce ==
  [][lastCall'.op = "removeTask" =>
      LET f == lastCall'.fid
          tid == lastCall'.tid
      IN IF lastCall'.present
           THEN /\ frameworks'[f].resources =
                     ResSub(frameworks[f].resources, frameworks[f].tasks[tid].resources)
                /\ tid \notin DOMAIN frameworks'[f].tasks
                /\ taskHeap' = Delete(taskHeap, frameworks[f].tasks[tid])
                /\ \A t \in DOMAIN frameworks[f].tasks \ {tid} :
                     frameworks'[f].tasks[t] = frameworks[f].tasks[t]
           ELSE /\ frameworks' = frameworks
                /\ taskHeap' = taskHeap
                /\ descHeap' = descHeap]_vars

\* C3's case: the same task has just been removed twice in a row, the first
\* removal having found it.
C3_Witness ==
  /\ lastCall.op = "removeTask"
  /\ lastCall.repeat
  /\ ~lastCall.present
  /\ frameworks[lastCall.fid].tasks # EmptyMap

\* The resources of the Task records of a slave-side framework.
TaskResourcesOf(fw) ==
  ResSum([i \in DOMAIN MapValues(fw.tasks) |-> MapValues(fw.tasks)[i].resources])

RECURSIVE SlaveUsed(_)
\* The resources used by the tasks the slave holds for a set of frameworks.
SlaveUsed(fs) ==
  IF fs = {} THEN ResZero
  ELSE LET f == CHOOSE x \in fs : TRUE
       IN ResAdd(TaskResourcesOf(frameworks[f]), SlaveUsed(fs \ {f}))

\* C1 (resource conservation): between two handled messages, in the master's
\* record of the slave the resources used by tasks plus the resources locked
\* in outstanding offers are componentwise within the slave's total, and
\* nothing is negative; on the slave each framework's resources field is the
\* sum of the resources of its tasks, and the tasks of all frameworks
\* together are within what the slave advertises; and neither total ever
\* differs from what the slave started with.
C1_ResourceConservation ==
  /\ ResLeq(ResAdd(MasterUsed, mSlave.offered), mSlave.total)
  /\ ResLeq(ResZero, mSlave.offered)
  /\ mSlave.offered = OfferedIn(DOMAIN offers)
  /\ \A f \in DOMAIN frameworks : frameworks[f].resources = TaskResourcesOf(frameworks[f])
  /\ ResLeq(SlaveUsed(DOMAIN frameworks), resources)
  /\ mSlave.total = SlaveTotal
  /\ resources = SlaveTotal

\* C1's case: a task's terminal update has freed resources on slave and
\* master, another task is still held by the slave, and an offer is
\* outstanding next to it.
C1_Witness ==
  /\ \E f \in DOMAIN mFrameworks : \E t \in DOMAIN mFrameworks[f].tasks :
       mFrameworks[f].tasks[t].state \in TerminalStates
  /\ SlaveUsed(DOMAIN frameworks) # ResZero
  /\ MasterUsed # ResZero
  /\ mSlave.offered # ResZero

RECURSIVE BagOfSeq(_)
\* The bag of the elements of a sequence.
BagOfSeq(q) == IF q = <<>> THEN EmptyBag ELSE SetToBag({Head(q)}) (+) BagOfSeq(Tail(q))

RECURSIVE TasksOf(_)
\* The Task objects in the tasks maps of a set of slave-side frameworks.
TasksOf(fs) ==
  IF fs = {} THEN EmptyBag
  ELSE LET f == CHOOSE x \in fs : TRUE
       IN BagOfSeq(MapValues(frameworks[f].tasks)) (+) TasksOf(fs \ {f})

RECURSIVE QueuedOf(_)
\* The TaskDescription objects in the queues of a set of slave-side frameworks.
QueuedOf(fs) ==
  IF fs = {} THEN EmptyBag
  ELSE LET f == CHOOSE x \in fs : TRUE
       IN BagOfSeq(frameworks[f].queuedTasks) (+) QueuedOf(fs \ {f})

\* C4 (lifetime nesting): in every state the live Task objects are exactly
\* the entries of the tasks maps of the frameworks the slave has a record
\* of, each under its own framework, and the live TaskDescription objects
\* are exactly the entries of their queues, so that nothing of a framework
\* is left once its record is gone; on the master a framework that was
\* removed has no record (its tasks are part of the record).
C4_LifetimeNesting ==
  /\ taskHeap = TasksOf(DOMAIN frameworks)
  /\ descHeap = QueuedOf(DOMAIN frameworks)
  /\ \A t \in BagToSet(taskHeap) :
       /\ t.frameworkId \in DOMAIN frameworks
       /\ t.id \in DOMAIN frameworks[t.frameworkId].tasks
       /\ frameworks[t.frameworkId].tasks[t.id] = t
  /\ \A f \in DOMAIN frameworks : \A i \in DOMAIN frameworks[f].queuedTasks :
       lookupTask(frameworks[f], frameworks[f].queuedTasks[i].tid)
  /\ mRemoved \cap DOMAIN mFrameworks = {}

\* C4's case: the slave has just destroyed a framework that held tasks, and
\* it still holds a task of another framework.
C4_Witness ==
  /\ lastCall.op = "delete"
  /\ lastCall.present
  /\ lastCall.fid \notin DOMAIN frameworks
  /\ lastCall.fid \in mRemoved
  /\ taskHeap # EmptyBag

\* C5 (executor implies framework): in every state each FrameworkID with an
\* entry in the executors map has an entry in the frameworks map; and a step
\* in which an executor process goes away by itself (executorExited) drops
\* the executor record and keeps the framework record.
C5_ExecutorHasFramework ==
  /\ [](DOMAIN executors \subseteq DOMAIN frameworks)
  /\ [][\A f \in FrameworkIDs :
          (execState[f] # GONE /\ execState'[f] = GONE) =>
             /\ f \notin DOMAIN executors'
             /\ f \in DOMAIN frameworks => f \in DOMAIN frameworks']_vars

\* C5's case: the executor of one framework has exited and left its framework
\* record behind, while another framework's executor is registered.
C5_Witness ==
  \E f \in DOMAIN frameworks, g \in DOMAIN executors :
    /\ f # g
    /\ execState[f] = GONE
    /\ f \notin DOMAIN executors

\* Whether the slave holds a Task of framework f with TaskID tid.
HoldsTask(f, tid) == f \in DOMAIN frameworks /\ lookupTask(frameworks[f], tid)

\* C10 (RUN_TASK ordering): a step in which a task arrives (the slave did not
\* hold it and holds it afterwards) appends it to the end of queuedTasks and
\* delivers nothing when the framework has no registered executor, and
\* delivers it at once and leaves queuedTasks alone when it has one; the
\* step in which the executor registers delivers the queued tasks once each
\* in queue order, after what was delivered before, and leaves queuedTasks
\* empty; and queuedTasks is empty whenever an executor is registered.
C10_RunTaskOrdering ==
  /\ [](\A f \in DOMAIN executors : QueuedTidsOf(f) = <<>>)
  /\ [][\A f \in FrameworkIDs :
          /\ \A tid \in LaunchTaskIDs :
               (~HoldsTask(f, tid) /\ HoldsTask(f, tid)') =>
                  IF f \in DOMAIN executors
                    THEN /\ delivered'[f] = Append(delivered[f], tid)
                         /\ QueuedTidsOf(f)' = QueuedTidsOf(f)
                    ELSE /\ QueuedTidsOf(f)' = Append(QueuedTidsOf(f), tid)
                         /\ delivered'[f] = delivered[f]
          /\ (f \notin DOMAIN executors /\ f \in DOMAIN executors') =>
                /\ delivered'[f] = delivered[f] \o QueuedTidsOf(f)
                /\ QueuedTidsOf(f)' = <<>>
                /\ descHeap' = DeleteAll(descHeap, frameworks[f].queuedTasks)]_vars

\* C10's case: the executor has just registered and was sent two queued
\* tasks, TaskID 2 having arrived before TaskID 1.
C10_Witness ==
  /\ lastCall.op = "sendQueuedTasks"
  /\ delivered[lastCall.fid] = <<2, 1>>
  /\ lastCall.fid \in DOMAIN executors
  /\ QueuedTidsOf(lastCall.fid) = <<>>

\* C6 (stale epochs are dropped): a step of the callback for a leader event
\* whose epoch is not above every epoch observed before it changes no slave
\* state (zkserver, master) and posts no LE2S_NEWLEADER.
C6_StaleEpochDropped ==
  [][(listener' # listener /\ listener'.stale) =>
       (zkserver' = zkserver /\ master' = master /\ inbox' = inbox)]_vars

\* C7 (an empty master identity is never adopted): neither zkserver nor
\* master is ever the empty string, and no queued LE2S_NEWLEADER names it.
C7_EmptyIdentityNotAdopted ==
  /\ zkserver # ""
  /\ master # ""
  /\ \A i \in DOMAIN inbox : inbox[i].pidStr # ""

\* C8 (the callback touches no slave state): a step of the listener's thread
\* changes neither zkserver nor master; it may only post to the queue.
C8_CallbackTouchesNoState ==
  [][listener' # listener => (zkserver' = zkserver /\ master' = master)]_vars

\* C9 as stated (a duplicate TaskID never crashes the system): the slave
\* process never aborts.
C9_NeverAborts == ~aborted

\* C9 (a duplicate TaskID, amended): the master handles a duplicate TaskID in
\* LAUNCH_TASKS as a protocol violation, in one step: it logs a diagnostic,
\* drops the framework's record and offers, and tells the slave to kill the
\* framework if it had tasks.  The slave does not: a RUN_TASK whose TaskID
\* the framework holds already aborts the slave process (LOG(FATAL) in
\* Framework::addTask), and the step leaves every record of the slave as it
\* was, removes no framework and sends nothing.
C9_DuplicateTaskID ==
  /\ [](\A e \in mLog :
         /\ e.fid \in mRemoved
         /\ e.fid \notin DOMAIN mFrameworks
         /\ \A o \in DOMAIN offers : offers[o].frameworkId # e.fid)
  /\ [][\A e \in mLog' \ mLog :
          /\ e.fid \in DOMAIN mFrameworks
          /\ e.fid \notin DOMAIN mFrameworks'
          /\ mFrameworks[e.fid].tasks # EmptyMap =>
               (toSlave' # <<>> /\ toSlave'[Len(toSlave')] = KillFramework(e.fid))
          /\ UNCHANGED <<frameworkVars, slaveVars>>]_vars
  /\ [][(lastCall' # lastCall /\ lastCall'.op = "addTask" /\ lastCall'.present) =>
          /\ HoldsTask(lastCall'.fid, lastCall'.tid)
          /\ ~aborted /\ aborted'
          /\ UNCHANGED <<frameworks, taskHeap, descHeap, slaveVars, linkVars, masterVars>>]_vars
  /\ [][(~aborted /\ aborted') =>
          UNCHANGED <<frameworks, taskHeap, descHeap, slaveVars, linkVars, masterVars>>]_vars

\* C9's case: the master has disconnected a framework for a duplicate TaskID,
\* and the slave has aborted on a RUN_TASK for a task it held, which it
\* holds still.
C9_Witness ==
  /\ \E e \in mLog : e.why = "duplicate TaskID"
  /\ aborted
  /\ lastCall.op = "addTask"
  /\ lastCall.present
  /\ HoldsTask(lastCall.fid, lastCall.tid)

\* A sequence of TaskIDs without the entries equal to tid.
Without(tids, tid) == LET keep(x) == x # tid IN SelectSeq(tids, keep)

\* C11 (KILL_TASK of a queued task): the step that reports a task KILLED from
\* the slave (KILL_TASK found it queued) leaves no TaskDescription with that
\* TaskID in queuedTasks and no Task with it in tasks, frees the one
\* description, and keeps the other queued tasks in their order; a queued
\* TaskID is always in the queue once and in tasks; and the flush at
\* registration delivers the queue as it is then, so never a killed task.
C11_KillQueuedTask ==
  /\ [](\A i \in DOMAIN QueuedTidsOf(QueueFramework) :
         /\ HoldsTask(QueueFramework, QueuedTidsOf(QueueFramework)[i])
         /\ \A j \in DOMAIN QueuedTidsOf(QueueFramework) :
              QueuedTidsOf(QueueFramework)[i] = QueuedTidsOf(QueueFramework)[j] => i = j)
  /\ [][\A tid \in QueueTaskIDs :
          toMaster' = Append(toMaster, StatusUpdate(QueueFramework, tid, TASK_KILLED)) =>
             /\ QueuedAt(frameworks[QueueFramework], tid) # 0
             /\ QueuedTidsOf(QueueFramework)' = Without(QueuedTidsOf(QueueFramework), tid)
             /\ ~HoldsTask(QueueFramework, tid)'
             /\ descHeap' = Delete(descHeap,
                   frameworks[QueueFramework].queuedTasks[QueuedAt(frameworks[QueueFramework], tid)])
             /\ delivered' = delivered]_vars
  /\ [][(QueueFramework \notin DOMAIN executors /\ QueueFramework \in DOMAIN executors') =>
          /\ delivered'[QueueFramework] =
               delivered[QueueFramework] \o QueuedTidsOf(QueueFramework)
          /\ \A i \in DOMAIN QueuedTidsOf(QueueFramework) :
               QueuedTidsOf(QueueFramework)[i] \in DOMAIN frameworks'[QueueFramework].tasks]_vars

\* C11's case: TaskID 2 was killed while queued (its KILLED update is still
\* on its way to the master), and the executor that registered afterwards
\* was sent the two tasks left in the queue, 3 before 1.
C11_Witness ==
  /\ toMaster = <<StatusUpdate(QueueFramework, 2, TASK_KILLED)>>
  /\ lastCall.op = "sendQueuedTasks"
  /\ delivered[QueueFramework] = <<3, 1>>
  /\ ~HoldsTask(QueueFramework, 2)

\* Whether the master holds task tid of framework f as terminal.
MasterTerminal(f, tid) ==
  /\ f \in DOMAIN mFrameworks
  /\ tid \in DOMAIN mFrameworks[f].tasks
  /\ mFrameworks[f].tasks[tid].state \in TerminalStates

\* C12 (terminal monotonicity): a task the master holds as terminal keeps its
\* state in every step for as long as its framework's record is there; a
\* status update for such a task changes nothing in the master; and the
\* slave holds no Task in a terminal state (the update that ends a task
\* removes it, so a later update for it finds nothing).
C12_TerminalMonotonicity ==
  /\ [](\A t \in BagToSet(taskHeap) : t.state \notin TerminalStates)
  /\ [][\A f \in FrameworkIDs, tid \in LaunchTaskIDs :
          (MasterTerminal(f, tid) /\ f \in DOMAIN mFrameworks') =>
             /\ tid \in DOMAIN mFrameworks'[f].tasks
             /\ mFrameworks'[f].tasks[tid] = mFrameworks[f].tasks[tid]]_vars
  /\ [][(lastCall' # lastCall /\ lastCall'.op = "statusUpdate") =>
          /\ MasterTerminal(lastCall'.fid, lastCall'.tid)
          /\ UNCHANGED masterVars]_vars

\* C12's case: the master has just been given an update for a task it holds
\* as FINISHED, and holds it as FINISHED still.
C12_Witness ==
  /\ lastCall.op = "statusUpdate"
  /\ MasterTerminal(lastCall.fid, lastCall.tid)
  /\ mFrameworks[lastCall.fid].tasks[lastCall.tid].state = TASK_FINISHED

\* The OfferIDs the master has minted so far.
Minted == 1..(nextOfferId - 1)

MaxArgs == 2

\* What a command line is made of: options of the table and of the option
\* string, options of neither, and a plain word.
ArgTokens == {"--help", "-q", "--quiet", "-f", "--port=1", "-x", "--bogus", "zk"}

RECURSIVE SeqsUpTo(_, _)
\* The sequences over S of length n at most.
SeqsUpTo(S, n) ==
  IF n = 0 THEN {<<>>}
  ELSE LET shorter == SeqsUpTo(S, n - 1)
       IN shorter \cup {Append(s, x) : s \in {t \in shorter : Len(t) = n - 1}, x \in S}

\* The long names of the options table, and the tokens that are options.
LongNames == {"--allocator", "--port", "--fault-tolerant", "--quiet"}

IsOption(tok) == tok # "zk"

IsLong(tok) == tok \in {"--help", "--quiet", "--port=1", "--bogus"}

\* The name of a long option, without its =value.
LongName(tok) == IF tok = "--port=1" THEN "--port" ELSE tok

RECURSIVE NextOption(_, _)
\* The place of the first option at or after optind, or 0: getopt_long steps
\* over the words that are no options.
NextOption(argv, optind) ==
  IF optind > Len(argv) THEN 0
  ELSE IF IsOption(argv[optind]) THEN optind
  ELSE NextOption(argv, optind + 1)

\* getopt_long(argc, argv, "a:p:f:q", options, &index): what it returns, and
\* optind and optarg after it. A long name that is not in the table sends the
\* search past the end of the table, which has no closing entry of zeros:
\* opt is then "overrun", and what happens is not defined.
getopt_long(argv, optind) ==
  LET i == NextOption(argv, optind)
      none == [opt |-> "-1", optind |-> optind, optarg |-> ""]
  IN IF i = 0 THEN none
     ELSE LET tok == argv[i]
          IN IF IsLong(tok)
               THEN IF LongName(tok) \notin LongNames
                      THEN [opt |-> "overrun", optind |-> i + 1, optarg |-> ""]
                    ELSE IF tok = "--quiet"
                      THEN [opt |-> "q", optind |-> i + 1, optarg |-> ""]
                    ELSE [opt |-> "p", optind |-> i + 1, optarg |-> "1"]
             ELSE IF tok = "-q" THEN [opt |-> "q", optind |-> i + 1, optarg |-> ""]
             ELSE IF tok = "-f"
               THEN IF i = Len(argv)
                      THEN [opt |-> "?", optind |-> i + 1, optarg |-> ""]
                      ELSE [opt |-> "f", optind |-> i + 2, optarg |-> argv[i + 1]]
             ELSE [opt |-> "?", optind |-> i + 1, optarg |-> ""]

\* main is entered with a command line (argv[0] left out).
MainAt(argv) ==
  [pc |-> "main", argv |-> argv, optind |-> 1, quiet |-> FALSE, isFT |-> FALSE,
   zkserver |-> "", agent |-> "none", code |-> -1]

InitMain ==
  /\ InitCluster
  /\ proc \in {MainAt(argv) : argv \in SeqsUpTo(ArgTokens, MaxArgs)}
  /\ testEnv = Absent
  /\ upids = Absent

\* exit(code).
Exit(code) == proc' = [proc EXCEPT !.pc = "exited", !.code = code]

\* The first statement of main: --help as the only argument.
MainEntry ==
  /\ proc.pc = "main"
  /\ IF proc.argv = <<"--help">>
       THEN Exit(1)
       ELSE proc' = [proc EXCEPT !.pc = "getopt"]

\* One turn of the option loop: the call of getopt_long and the switch. After
\* an overrun the call may come back with '?', or the process is killed.
OptionLoop ==
  /\ proc.pc = "getopt"
  /\ LET r == getopt_long(proc.argv, proc.optind)
     IN CASE r.opt = "-1" -> proc' = [proc EXCEPT !.pc = "spawn"]
          [] r.opt = "q" -> proc' = [proc EXCEPT !.quiet = TRUE, !.optind = r.optind]
          [] r.opt = "f" -> proc' = [proc EXCEPT !.isFT = TRUE, !.zkserver = r.optarg,
                                                  !.optind = r.optind]
          [] r.opt = "p" -> proc' = [proc EXCEPT !.optind = r.optind]
          [] r.opt = "?" -> Exit(1)
          [] r.opt = "overrun" -> \/ Exit(1)
                                  \/ proc' = [proc EXCEPT !.pc = "killed"]

\* Logging is set up and the Master is spawned.
SpawnMaster ==
  /\ proc.pc = "spawn"
  /\ proc' = [proc EXCEPT !.pc = "wait", !.agent = "running"]

\* The Master process comes to its end.
MasterTerminates ==
  /\ proc.pc = "wait"
  /\ proc.agent = "running"
  /\ proc' = [proc EXCEPT !.agent = "terminated"]

\* Process::wait(master) comes back, and main returns 0.
WaitReturns ==
  /\ proc.pc = "wait"
  /\ proc.agent = "terminated"
  /\ Exit(0)

NextMain ==
  /\ \/ MainEntry
     \/ OptionLoop
     \/ SpawnMaster
     \/ MasterTerminates
     \/ WaitReturns
  /\ UNCHANGED <<frameworkVars, slaveVars, linkVars, masterVars, leaderVars, lastCall,
                 testEnv, upids>>

SpecMain == InitMain /\ [][NextMain]_vars

RECURSIVE Unparsable(_, _)
\* The command line holds, at or after optind, an option getopt_long cannot
\* parse.
Unparsable(argv, optind) ==
  LET r == getopt_long(argv, optind)
  IN IF r.opt = "-1" THEN FALSE
     ELSE IF r.opt \in {"?", "overrun"} THEN TRUE
     ELSE Unparsable(argv, r.optind)

\* C14 (exit codes of the master binary): a run whose command line holds an
\* option getopt cannot parse ends by exiting with code 1; the program ends
\* with code 0 only from Process::wait, after the spawned Master has
\* terminated; and main leaves Process::wait in no other way.
C14_ExitCodes ==
  /\ [](proc.pc \in {"exited", "killed"} /\ Unparsable(proc.argv, 1) =>
          proc.pc = "exited" /\ proc.code = 1)
  /\ [](proc.pc = "exited" /\ proc.code = 0 => proc.agent = "terminated")
  /\ [][proc.pc = "wait" /\ proc'.pc # "wait" =>
          proc.agent = "terminated" /\ proc'.pc = "exited" /\ proc'.code = 0]_vars
  /\ [][proc.pc # "exited" /\ proc'.pc = "exited" /\ proc'.code = 0 =>
          proc.pc = "wait"]_vars

\* ------------------------------ SpecEnable: enable() of the test Environment

MaxNameLen == 2

\* Names and type parameters are strings, kept as sequences of pieces: a
\* marker is one piece, and so is any other stretch of text.
Markers == {"ROOT_", "CGROUPS_", "NOHIERARCHY_"}

NamePieces == Markers \cup {"Test"}

\* strings::contains(s, piece).
contains(s, piece) == \E i \in 1..Len(s) : s[i] = piece

\* test.type_param(): NULL, or the text of the type.
NoTypeParam == [null |-> TRUE, text |-> <<>>]

TypeParam(text) == [null |-> FALSE, text |-> text]

TypeParams ==
  {NoTypeParam, TypeParam(<<"ProcessIsolator">>), TypeParam(<<"CgroupsIsolator">>),
   TypeParam(<<"slave::", "CgroupsIsolator">>)}

\* ::testing::TestInfo: test_case_name(), name(), type_param().
TestInfo(case, name, type) == [case |-> case, name |-> name, type |-> type]

\* What enable() asks of its surroundings: os::user(), whether /proc/cgroups
\* exists, whether the build is for Linux, and cgroups::hierarchies(), a Try
\* that is an error, the empty set, or a set with a hierarchy in it.
Surroundings ==
  [user : {"root", "nobody"}, cgroups : BOOLEAN, linux : BOOLEAN,
   hierarchies : {"error", "none", "mounted"}]

\* The body of the loop over the names, for one name: "false" for return
\* false, "abort" for the CHECK that fails, "pass" for the end of the body.
CheckName(env, name) ==
  IF contains(name, "ROOT_") /\ env.user # "root" THEN "false"
  ELSE IF contains(name, "CGROUPS_") /\ ~env.cgroups THEN "false"
  ELSE IF env.linux /\ contains(name, "NOHIERARCHY_")
    THEN IF env.hierarchies = "error" THEN "abort"
         ELSE IF env.hierarchies = "mounted" THEN "false"
         ELSE "pass"
  ELSE "pass"

\* A check of the type parameter that asks only for root.
CheckTypeParam_RootOnly(env, type) ==
  IF ~type.null /\ contains(type.text, "CgroupsIsolator") /\ env.user # "root"
    THEN "false"
    ELSE "true"

\* The check of the type parameter, and return true.
CheckTypeParam(env, type) ==
  IF ~type.null /\ contains(type.text, "CgroupsIsolator")
       /\ (env.user # "root" \/ ~env.cgroups)
    THEN "false"
    ELSE "true"

\* enable(test): "true", "false", or "abort" when the CHECK fails.
enable(env, test) ==
  LET first == CheckName(env, test.case)
  IN IF first # "pass" THEN first
     ELSE LET second == CheckName(env, test.name)
          IN IF second # "pass" THEN second
             ELSE CheckTypeParam(env, test.type)

\* The names of SpecEnable: any pieces, in any order.
Names == SeqsUpTo(NamePieces, MaxNameLen)

InitEnable ==
  /\ InitCluster
  /\ proc = Absent
  /\ upids = Absent
  /\ testEnv \in {[pc |-> "enable", env |-> env, test |-> TestInfo(case, name, type),
                    result |-> "none"] :
                   env \in Surroundings, case \in Names, name \in Names, type \in TypeParams}

\* enable(test) runs to its return or to the failing CHECK.
CallEnable ==
  /\ testEnv.pc = "enable"
  /\ LET r == enable(testEnv.env, testEnv.test)
     IN testEnv' = [testEnv EXCEPT !.pc = IF r = "abort" THEN "aborted" ELSE "returned",
                                   !.result = r]
  /\ UNCHANGED <<frameworkVars, slaveVars, linkVars, masterVars, leaderVars, lastCall,
                 proc, upids>>

NextEnable == CallEnable

SpecEnable == InitEnable /\ [][NextEnable]_vars

\* One of the names of a test holds a marker.
Marked(test, marker) == marker \in Range(test.case) \cup Range(test.name)

\* The four reasons the claim gives for a test not to be enabled.
Rejected(env, test) ==
  \/ Marked(test, "ROOT_") /\ env.user # "root"
  \/ Marked(test, "CGROUPS_") /\ ~env.cgroups
  \/ env.linux /\ Marked(test, "NOHIERARCHY_") /\ env.hierarchies = "mounted"
  \/ /\ ~test.type.null
     /\ "CgroupsIsolator" \in Range(test.type.text)
     /\ (env.user # "root" \/ ~env.cgroups)

\* A name with its pieces in the opposite order.
Reverse(s) == [i \in 1..Len(s) |-> s[Len(s) + 1 - i]]

\* The same test with the markers of its names in another order.
Reordered(test) ==
  {TestInfo(case, name, test.type) :
     case \in {test.case, Reverse(test.case)}, name \in {test.name, Reverse(test.name)}}

\* enable() has to ask for the mounted hierarchies and the answer is an error.
HierarchiesFail(env, test) ==
  /\ env.linux
  /\ env.hierarchies = "error"
  /\ Marked(test, "NOHIERARCHY_")

\* C16 as stated (enable decides every test): once enable() is over, the test
\* is enabled exactly when none of the four reasons holds, and the outcome
\* is the same for any order of the markers in the names.
C16_EnabledUnlessRejected ==
  testEnv.pc \in {"returned", "aborted"} =>
    /\ testEnv.result = (IF Rejected(testEnv.env, testEnv.test) THEN "false" ELSE "true")
    /\ \A t \in Reordered(testEnv.test) : enable(testEnv.env, t) = testEnv.result

\* C16, amended: when enable() returns, the test is enabled exactly when none
\* of the four reasons holds; enable() does not return only when a name holds
\* NOHIERARCHY_ on Linux and the query of the mounted hierarchies fails; and
\* the outcome is the same for any order of the markers in the names.
C16_EnabledUnlessRejectedOrAborted ==
  /\ testEnv.pc = "returned" =>
       testEnv.result = (IF Rejected(testEnv.env, testEnv.test) THEN "false" ELSE "true")
  /\ testEnv.pc = "aborted" => HierarchiesFail(testEnv.env, testEnv.test)
  /\ testEnv.pc \in {"returned", "aborted"} =>
       \A t \in Reordered(testEnv.test) : enable(testEnv.env, t) = testEnv.result

\* C16's case: enable() returned for a test run by root whose case name holds
\* two markers, and rejected it for the hierarchy that is mounted.
C16_Witness ==
  /\ testEnv.pc = "returned"
  /\ testEnv.result = "false"
  /\ testEnv.test.case = <<"NOHIERARCHY_", "ROOT_">>
  /\ testEnv.env.user = "root"
  /\ testEnv.env.linux
  /\ testEnv.env.hierarchies = "mounted"

\* ------------------------- SpecFilter: the constructor of the test Environment

MaxFilterLen == 3

MaxCases == 2

MaxTests == 2

\* A gtest filter is a string, kept as the sequence of its characters; the
\* entry of a test is spelled with the pieces of its names.
FilterChars == {"*", "-", ":"}

Filters == SeqsUpTo(FilterChars, MaxFilterLen)

\* The registered tests: test cases in the order of registration, each with
\* its tests in the order of registration. No two cases share a name, and no
\* two tests of a case do.
CaseNames == {<<"Test">>, <<"NOHIERARCHY_", "ROOT_">>}

TestNames == {<<"Test">>, <<"CGROUPS_", "Test">>}

DistinctNames(s) == \A i, j \in 1..Len(s) : s[i].name = s[j].name => i = j

TestLists ==
  {s \in SeqsUpTo([name : TestNames, type : {NoTypeParam}], MaxTests) :
     s # <<>> /\ DistinctNames(s)}

TestCases == [name : CaseNames, tests : TestLists]

Registries == {s \in SeqsUpTo(TestCases, MaxCases) : DistinctNames(s)}

\* filter.find('-'): the first place of the character, or 0 for npos.
find(s, ch) ==
  IF \E i \in 1..Len(s) : s[i] = ch
    THEN CHOOSE i \in 1..Len(s) : s[i] = ch /\ \A j \in 1..(i - 1) : s[j] # ch
    ELSE 0

\* strings::endsWith(s, ch).
endsWith(s, ch) == s # <<>> /\ s[Len(s)] = ch

\* A constructor that adds its entries right after what was disabled before.
EnsureSeparator_None(disabled) == disabled

\* Ensure disabled tests end with ":" separator before we add more.
EnsureSeparator(disabled) ==
  IF disabled # <<>> /\ ~endsWith(disabled, ":") THEN Append(disabled, ":") ELSE disabled

RECURSIVE TestLoop(_, _, _, _)
\* The loop over the tests of a test case from the j-th on: the disabled
\* string after it, and whether enable() aborted.
TestLoop(env, case, j, st) ==
  IF st.aborted \/ j > Len(case.tests) THEN st
  ELSE LET test == TestInfo(case.name, case.tests[j].name, case.tests[j].type)
           r == enable(env, test)
       IN TestLoop(env, case, j + 1,
            IF r = "abort" THEN [st EXCEPT !.aborted = TRUE]
            ELSE IF r = "false"
              THEN [st EXCEPT !.disabled = @ \o test.case \o <<".">> \o test.name \o <<":">>]
            ELSE st)

RECURSIVE CaseLoop(_, _, _, _)
\* The loop over the test cases from the i-th on.
CaseLoop(env, registry, i, st) ==
  IF st.aborted \/ i > Len(registry) THEN st
  ELSE CaseLoop(env, registry, i + 1, TestLoop(env, registry[i], 1, st))

\* Environment::Environment() up to the update of the gtest flag: the new
\* filter, and whether enable() aborted on the way.
Environment(env, filter, registry) ==
  LET dash == find(filter, "-")
      enabled0 == IF dash # 0 THEN SubSeq(filter, 1, dash - 1) ELSE filter
      disabled0 == IF dash # 0 THEN SubSeq(filter, dash + 1, Len(filter)) ELSE <<>>
      enabled == IF enabled0 = <<>> THEN <<"*">> ELSE enabled0
      st == CaseLoop(env, registry, 1,
                     [disabled |-> EnsureSeparator(disabled0), aborted |-> FALSE])
  IN [aborted |-> st.aborted, filter |-> enabled \o <<"-">> \o st.disabled]

InitFilter ==
  /\ InitCluster
  /\ proc = Absent
  /\ upids = Absent
  /\ testEnv \in {[pc |-> "construct", env |-> env, given |-> filter, filter |-> filter,
                    registry |-> registry] :
                   env \in Surroundings, filter \in Filters, registry \in Registries}

\* The constructor runs to its end, or to the CHECK that fails in enable().
Construct ==
  /\ testEnv.pc = "construct"
  /\ LET r == Environment(testEnv.env, testEnv.filter, testEnv.registry)
     IN testEnv' = IF r.aborted THEN [testEnv EXCEPT !.pc = "aborted"]
                   ELSE [testEnv EXCEPT !.pc = "constructed", !.filter = r.filter]
  /\ UNCHANGED <<frameworkVars, slaveVars, linkVars, masterVars, leaderVars, lastCall,
                 proc, upids>>

NextFilter == Construct

SpecFilter == InitFilter /\ [][NextFilter]_vars

RECURSIVE Flat(_)
\* The registered tests, one after the other in the order of registration.
Flat(registry) ==
  IF registry = <<>> THEN <<>>
  ELSE [j \in 1..Len(Head(registry).tests) |->
          TestInfo(Head(registry).name, Head(registry).tests[j].name,
                   Head(registry).tests[j].type)]
       \o Flat(Tail(registry))

RECURSIVE Entries(_, _)
\* One entry "TestCase.TestName:" for each test of a sequence that enable()
\* rejects.
Entries(env, tests) ==
  IF tests = <<>> THEN <<>>
  ELSE (IF enable(env, Head(tests)) = "false"
          THEN Head(tests).case \o <<".">> \o Head(tests).name \o <<":">>
          ELSE <<>>)
       \o Entries(env, Tail(tests))

\* The places of a character in a string.
Places(s, ch) == {i \in 1..Len(s) : s[i] = ch}

\* The text of a filter before its first '-' (all of it when it has none),
\* and the text after that '-'.
BeforeDash(s) ==
  IF Places(s, "-") = {} THEN s
  ELSE SubSeq(s, 1, (CHOOSE i \in Places(s, "-") : \A j \in Places(s, "-") : i <= j) - 1)

AfterDash(s) == SubSeq(s, Len(BeforeDash(s)) + 2, Len(s))

\* C15 (filters in place are kept): after the constructor the filter is
\* enabled, "-", disabled: enabled is the text of the filter given before its
\* first '-', or "*" when that is empty; disabled is the text given after
\* that '-', closed by ':' when it is not empty, and then one entry
\* "TestCase.TestName:" for each registered test enable() rejects, and none
\* for a test it accepts.
C15_FilterKept ==
  testEnv.pc = "constructed" =>
    LET enabled == IF BeforeDash(testEnv.given) = <<>> THEN <<"*">>
                   ELSE BeforeDash(testEnv.given)
        before == AfterDash(testEnv.given)
        closed == IF before = <<>> \/ before[Len(before)] = ":" THEN before
                  ELSE before \o <<":">>
    IN testEnv.filter =
         enabled \o <<"-">> \o closed \o Entries(testEnv.env, Flat(testEnv.registry))

\* C15's case: the filter given enables and disables something and does not
\* end in ':', and the constructor has added an entry for one of two tests.
C15_Witness ==
  /\ testEnv.pc = "constructed"
  /\ testEnv.given = <<"*", "-", "*">>
  /\ Len(Flat(testEnv.registry)) = 2
  /\ \E t \in Range(Flat(testEnv.registry)) : enable(testEnv.env, t) = "false"
  /\ \E t \in Range(Flat(testEnv.registry)) : enable(testEnv.env, t) = "true"

\* C17 (per-framework accounting on the slave): after any addTask and
\* removeTask calls on a Framework that started with no tasks, its resources
\* field is the sum of the resources of the tasks in its map, each of them
\* carries the framework's id as frameworkId, and a task that addTask has
\* just added is in state TASK_STARTING, its resources added to the field.
C17_FrameworkAccounting ==
  /\ [](\A f \in DOMAIN frameworks :
         /\ frameworks[f].resources = TaskResourcesOf(frameworks[f])
         /\ \A tid \in DOMAIN frameworks[f].tasks :
              frameworks[f].tasks[tid].frameworkId = frameworks[f].id)
  /\ [][\A f \in FrameworkIDs, tid \in TaskIDs :
          (/\ f \in DOMAIN frameworks /\ f \in DOMAIN frameworks'
           /\ tid \notin DOMAIN frameworks[f].tasks
           /\ tid \in DOMAIN frameworks'[f].tasks) =>
             /\ frameworks'[f].tasks[tid].state = TASK_STARTING
             /\ frameworks'[f].resources =
                  ResAdd(frameworks[f].resources, frameworks'[f].tasks[tid].resources)]_vars

\* C17's case: a framework held two tasks of different sizes, removeTask has
\* taken one of them, and the other is still there.
C17_Witness ==
  /\ lastCall.op = "removeTask"
  /\ lastCall.present
  /\ lastCall.fid \in DOMAIN frameworks
  /\ \E tid \in DOMAIN frameworks[lastCall.fid].tasks :
       /\ tid # lastCall.tid
       /\ frameworks[lastCall.fid].tasks[tid].resources = Resources(2, 1)
       /\ frameworks[lastCall.fid].resources = Resources(2, 1)

\* ------------------------------------------- SpecPid: the operators of UPID

MaxIp == 1

MaxPort == 1

\* The ids of the UPIDs compared: strings, kept as sequences of characters.
IdTexts == {<<>>, <<"a">>, <<"b">>, <<"a", "b">>}

\* struct UPID: id, ip, port.
UPID(id, ip, port) == [id |-> id, ip |-> ip, port |-> port]

UPIDs == {UPID(id, ip, port) : id \in IdTexts, ip \in 0..MaxIp, port \in 0..MaxPort}

\* The objects compared: each is at an address and holds a UPID.
Addresses == {1, 2, 3}

\* The code of a character.
CharCode(ch) == IF ch = "a" THEN 97 ELSE 98

RECURSIVE StringLess(_, _)
\* std::string operator<: the first character that differs decides, and a
\* proper prefix is less.
StringLess(s, t) ==
  IF t = <<>> THEN FALSE
  ELSE IF s = <<>> THEN TRUE
  ELSE IF s[1] = t[1] THEN StringLess(Tail(s), Tail(t))
  ELSE CharCode(s[1]) < CharCode(t[1])

\* An object of the store: its address and its value.
At(store, addr) == [addr |-> addr, v |-> store[addr]]

\* UPID::operator !
operator_not(this) == this.v.id = <<>> /\ this.v.ip = 0 /\ this.v.port = 0

\* An operator < that lets the port decide before the ip.
operator_lt_PortFirst(this, that) ==
  IF this.addr # that.addr
    THEN IF this.v.ip = that.v.ip /\ this.v.port = that.v.port
           THEN StringLess(this.v.id, that.v.id)
         ELSE IF this.v.port # that.v.port
           THEN this.v.port < that.v.port
         ELSE this.v.ip < that.v.ip
    ELSE FALSE

\* UPID::operator <
operator_lt(this, that) ==
  IF this.addr # that.addr
    THEN IF this.v.ip = that.v.ip /\ this.v.port = that.v.port
           THEN StringLess(this.v.id, that.v.id)
         ELSE IF this.v.ip = that.v.ip /\ this.v.port # that.v.port
           THEN this.v.port < that.v.port
         ELSE this.v.ip < that.v.ip
    ELSE FALSE

\* UPID::operator ==
operator_eq(this, that) ==
  IF this.addr # that.addr
    THEN this.v.id = that.v.id /\ this.v.ip = that.v.ip /\ this.v.port = that.v.port
    ELSE TRUE

\* UPID::operator !=
operator_ne(this, that) == ~operator_eq(this, that)

InitPid ==
  /\ InitCluster
  /\ proc = Absent
  /\ testEnv = Absent
  /\ upids \in {[pc |-> "operands", store |-> store] : store \in [Addresses -> UPIDs]}

\* Every operator is applied to every object, or pair of objects, of the
\* store, an object and itself included.
ApplyOperators ==
  /\ upids.pc = "operands"
  /\ upids' =
       [pc |-> "compared",
        store |-> upids.store,
        not |-> [a \in Addresses |-> operator_not(At(upids.store, a))],
        lt |-> [a \in Addresses |-> [b \in Addresses |->
                  operator_lt(At(upids.store, a), At(upids.store, b))]],
        eq |-> [a \in Addresses |-> [b \in Addresses |->
                  operator_eq(At(upids.store, a), At(upids.store, b))]],
        ne |-> [a \in Addresses |-> [b \in Addresses |->
                  operator_ne(At(upids.store, a), At(upids.store, b))]]]
  /\ UNCHANGED <<frameworkVars, slaveVars, linkVars, masterVars, leaderVars, lastCall,
                 proc, testEnv>>

NextPid == ApplyOperators

SpecPid == InitPid /\ [][NextPid]_vars

\* The lexicographic order on (ip, port, id).
Lexicographic(x, y) ==
  \/ x.ip < y.ip
  \/ x.ip = y.ip /\ x.port < y.port
  \/ x.ip = y.ip /\ x.port = y.port /\ StringLess(x.id, y.id)

\* The number of the formulas of a set that hold.
HowMany(bs) == Cardinality({i \in DOMAIN bs : bs[i]})

\* C18 (UPIDs are totally ordered, consistently with equality): operator< is
\* the lexicographic order on (ip, port, id); of a < b, b < a and a == b
\* exactly one holds; operator< is irreflexive and transitive; a != b is the
\* negation of a == b; and !a holds exactly when a has the empty id, ip 0 and
\* port 0.
C18_TotalOrder ==
  upids.pc = "compared" =>
    /\ \A a, b \in Addresses :
         /\ upids.lt[a][b] = Lexicographic(upids.store[a], upids.store[b])
         /\ upids.eq[a][b] = (upids.store[a] = upids.store[b])
         /\ HowMany(<<upids.lt[a][b], upids.lt[b][a], upids.eq[a][b]>>) = 1
         /\ upids.ne[a][b] = ~upids.eq[a][b]
    /\ \A a \in Addresses :
         /\ ~upids.lt[a][a]
         /\ upids.not[a] = (upids.store[a] = UPID(<<>>, 0, 0))
    /\ \A a, b, c \in Addresses :
         upids.lt[a][b] /\ upids.lt[b][c] => upids.lt[a][c]

\* C18's case: three UPIDs in a chain a < b < c in which the ip decides
\* against the port and the port against the id, and a is the empty UPID.
C18_Witness ==
  /\ upids.pc = "compared"
  /\ upids.store[1] = UPID(<<>>, 0, 0)
  /\ upids.store[2] = UPID(<<"b">>, 0, 1)
  /\ upids.store[3] = UPID(<<"a">>, 1, 0)
  /\ upids.lt[1][2] /\ upids.lt[2][3] /\ upids.lt[1][3]
  /\ upids.not[1]

====
